---- MODULE Spec2Model ----
(***************************************************************************)
(* Model of gitignored (src/src/lib.rs): Pattern::new, Pattern::get_parents *)
(* and the Gitignore methods make_absolute, make_absolute_anywhere,        *)
(* make_full_path, ignores_path, find_ignored_dirs and ignores.            *)
(*                                                                         *)
(* A string is a sequence of one-character strings, so that slicing,       *)
(* splitting and prefix tests are computed as the code computes them.      *)
(* A call that panics (an unwrap on None or Err) yields panic |-> TRUE.    *)
(***************************************************************************)
EXTENDS Naturals, Sequences, FiniteSets

VARIABLES
    root,      \* Gitignore.root, as displayed
    options,   \* Gitignore.options (MatchOptions)
    lines,     \* the caller's rule list, argument of ignores
    target,    \* the caller's target path
    called,    \* "none", "ignores" or "ignores_path": the last call made
    arg,       \* index in lines of the rule handed to ignores_path (0 otherwise)
    result,    \* outcome of the last call: [panic, ret]
    prior,     \* options.require_literal_separator as the last call found it
    built,     \* <<dir, long_glob>> pairs built by the last ignores (lib.rs:242)
    raw,       \* the string handed to Pattern::new
    pattern    \* the Pattern it returned: [panic, string, negated, match_type, path_kind]

vars == <<root, options, lines, target, called, arg, result, prior, built, raw, pattern>>

(* ------------------------------ bounds --------------------------------- *)

MaxLines == 2
MaxLen == 4

(* ------------------------------ strings -------------------------------- *)

starts_with(s, p) ==
    /\ Len(p) <= Len(s)
    /\ SubSeq(s, 1, Len(p)) = p

ends_with(s, p) ==
    /\ Len(p) <= Len(s)
    /\ SubSeq(s, Len(s) - Len(p) + 1, Len(s)) = p

is_whitespace(c) == c = " "

is_separator(c) == c = "/"

\* str::split("/"): the segments between separators, empty ones included
RECURSIVE split(_)
split(s) ==
    IF \A k \in 1..Len(s) : s[k] # "/"
    THEN <<s>>
    ELSE LET k == CHOOSE k \in 1..Len(s) :
                      /\ s[k] = "/"
                      /\ \A m \in 1..(k - 1) : s[m] # "/"
         IN  <<SubSeq(s, 1, k - 1)>> \o split(SubSeq(s, k + 1, Len(s)))

\* [&str]::join("/")
RECURSIVE join(_)
join(segments) ==
    IF Len(segments) = 0 THEN <<>>
    ELSE IF Len(segments) = 1 THEN segments[1]
    ELSE segments[1] \o <<"/">> \o join(Tail(segments))

contains(seq, x) == \E k \in 1..Len(seq) : seq[k] = x

(* --------------------------- free functions ---------------------------- *)

\* string.chars().nth(0): None on the empty string
chars_nth0(string) ==
    IF Len(string) = 0 THEN [none |-> TRUE, c |-> ""]
    ELSE [none |-> FALSE, c |-> string[1]]

\* first_char unwraps chars().nth(0): it panics when that is None
first_char(string) ==
    LET n == chars_nth0(string)
    IN  [panic |-> n.none, c |-> n.c]

negate(string) == <<"!">> \o string

has_no_middle_separators(string) ==
    LET segments == SelectSeq(split(string), LAMBDA s : s # <<>>)
    IN  Len(segments) <= 1

remove_whitespace(s) == SelectSeq(s, LAMBDA c : ~is_whitespace(c))

\* Regex \*\.[^\*]+$ : a "*", a ".", then one or more non-"*" up to the end
has_extension(s) ==
    \E k \in 1..Len(s) :
        /\ k + 2 <= Len(s)
        /\ s[k] = "*"
        /\ s[k + 1] = "."
        /\ \A m \in (k + 2)..Len(s) : s[m] # "*"

(* ------------------------------ Pattern -------------------------------- *)

PanickedPattern ==
    [panic |-> TRUE, string |-> <<>>, negated |-> FALSE,
     match_type |-> "Relative", path_kind |-> "Both"]

PatternNew(glob) ==
    LET negated == starts_with(glob, <<"!">>)
        without_neg == IF negated THEN SubSeq(glob, 2, Len(glob)) ELSE glob
        normalized_glob == remove_whitespace(without_neg)
        \* && short-circuits: first_char runs only if the text does not start with **
        reaches_first_char == ~starts_with(normalized_glob, <<"*", "*">>)
        fc == first_char(normalized_glob)
        match_type ==
            IF /\ ~starts_with(normalized_glob, <<"*", "*">>)
               /\ fc.c # "/"
               /\ has_no_middle_separators(normalized_glob)
            THEN "Anywhere"
            ELSE "Relative"
        path_kind ==
            IF has_extension(normalized_glob) THEN "File"
            ELSE IF ends_with(normalized_glob, <<"/">>) THEN "Dir"
            ELSE "Both"
    IN  IF reaches_first_char /\ fc.panic
        THEN PanickedPattern
        ELSE [panic |-> FALSE, string |-> normalized_glob, negated |-> negated,
              match_type |-> match_type, path_kind |-> path_kind]

RECURSIVE parents_loop(_, _)
parents_loop(segments, parents) ==
    IF Len(segments) > 1
    THEN LET joined == join(SubSeq(segments, 1, Len(segments) - 1)) \o <<"/">>
             pushed == IF starts_with(joined, <<"/">>)
                       THEN parents \o <<joined>>
                       ELSE parents \o <<<<"/">> \o joined, joined>>
         IN  parents_loop(SubSeq(segments, 1, Len(segments) - 1), pushed)
    ELSE parents

get_parents(string) ==
    SelectSeq(parents_loop(split(string), <<>>), LAMBDA p : p # <<>>)

(* --------------- glob::Pattern, the external glob primitive ------------ *)
(* The glob crate is not part of the repository; it is modelled after the  *)
(* interface of the specification (matches(expression, path, options)) and *)
(* the crate's token matcher: a literal character, "*" (AnySequence) and   *)
(* "**" (AnyRecursiveSequence).                                            *)

MatchOptionsNew ==
    [case_sensitive |-> TRUE,
     require_literal_separator |-> FALSE,
     require_literal_leading_dot |-> FALSE]

\* The run of "*" starting at position i ends before position star_end(chars, i)
RECURSIVE star_end(_, _)
star_end(chars, i) ==
    IF i <= Len(chars) /\ chars[i] = "*" THEN star_end(chars, i + 1) ELSE i

\* glob::Pattern::new: the tokens, or err when the pattern does not compile
RECURSIVE compile(_, _, _)
compile(chars, i, tokens) ==
    IF i > Len(chars) THEN [err |-> FALSE, tokens |-> tokens]
    ELSE IF chars[i] = "*"
    THEN LET j == star_end(chars, i)
             count == j - i
         IN  IF count > 2 THEN [err |-> TRUE, tokens |-> <<>>]
             ELSE IF count = 2
             THEN IF i = 1 \/ is_separator(chars[i - 1])
                  THEN LET push ==
                               IF Len(tokens) > 1
                                  /\ tokens[Len(tokens)] = "AnyRecursiveSequence"
                               THEN tokens
                               ELSE Append(tokens, "AnyRecursiveSequence")
                       IN  IF j <= Len(chars) /\ is_separator(chars[j])
                           THEN compile(chars, j + 1, push)
                           ELSE IF j > Len(chars)
                           THEN compile(chars, j, push)
                           ELSE [err |-> TRUE, tokens |-> <<>>]
                  ELSE [err |-> TRUE, tokens |-> <<>>]
             ELSE compile(chars, j, Append(tokens, "AnySequence"))
    ELSE compile(chars, i + 1, Append(tokens, chars[i]))

PatternMatcherNew(pattern_str) == compile(pattern_str, 1, <<>>)

is_wildcard(token) == token \in {"AnySequence", "AnyRecursiveSequence"}

\* glob::Pattern::matches_from: tokens from ti against file from fi
RECURSIVE matches_from(_, _, _, _, _, _)
RECURSIVE wildcard_loop(_, _, _, _, _, _)
matches_from(tokens, ti, file, fi, follows_separator, opts) ==
    IF ti > Len(tokens)
    THEN IF fi > Len(file) THEN "Match" ELSE "SubPatternDoesntMatch"
    ELSE IF is_wildcard(tokens[ti])
    THEN LET empty == matches_from(tokens, ti + 1, file, fi, follows_separator, opts)
         IN  IF empty # "SubPatternDoesntMatch" THEN empty
             ELSE wildcard_loop(tokens, ti, file, fi, follows_separator, opts)
    ELSE IF fi > Len(file) THEN "EntirePatternDoesntMatch"
    ELSE IF file[fi] = tokens[ti]
    THEN matches_from(tokens, ti + 1, file, fi + 1, is_separator(file[fi]), opts)
    ELSE "SubPatternDoesntMatch"

\* the `while let Some(c) = file.next()` loop of a wildcard token
wildcard_loop(tokens, ti, file, fi, follows_separator, opts) ==
    IF fi > Len(file)
    THEN matches_from(tokens, ti + 1, file, fi, follows_separator, opts)
    ELSE LET c == file[fi]
             sep == is_separator(c)
         IN  IF follows_separator /\ opts.require_literal_leading_dot /\ c = "."
             THEN "SubPatternDoesntMatch"
             ELSE IF tokens[ti] = "AnyRecursiveSequence" /\ ~sep
             THEN wildcard_loop(tokens, ti, file, fi + 1, sep, opts)
             ELSE IF tokens[ti] = "AnySequence"
                     /\ opts.require_literal_separator /\ sep
             THEN "SubPatternDoesntMatch"
             ELSE LET m == matches_from(tokens, ti + 1, file, fi + 1, sep, opts)
                  IN  IF m # "SubPatternDoesntMatch" THEN m
                      ELSE wildcard_loop(tokens, ti, file, fi + 1, sep, opts)

\* glob::Pattern::matches_path_with
matches_path_with(matcher, path, opts) ==
    matches_from(matcher.tokens, 1, path, 1, TRUE, opts) = "Match"

\* glob::Pattern::matches_path: the default MatchOptions
matches_path(matcher, path) == matches_path_with(matcher, path, MatchOptionsNew)

(* ----------------------------- Gitignore ------------------------------- *)
(* self is [root, options]; a &mut self method returns the new self too.   *)

\* make_absolute that treats a leading "/" as "**/" instead of anchoring it
make_absolute_unanchored(self, p) ==
    LET self1 == [self EXCEPT !.options.require_literal_separator = TRUE]
        root_str == self.root
    IN  IF starts_with(p, <<"*", "*", "/">>)
        THEN [self |-> self1, s |-> p]
        ELSE IF starts_with(p, <<"/">>)
        THEN [self |-> self1, s |-> <<"*", "*">> \o p]
        ELSE [self |-> self1, s |-> root_str \o <<"/">> \o p]

make_absolute(self, p) ==
    LET self1 == [self EXCEPT !.options.require_literal_separator = TRUE]
        root_str == self.root
    IN  IF starts_with(p, <<"*", "*", "/">>)
        THEN [self |-> self1, s |-> p]
        ELSE IF starts_with(p, <<"/">>)
        THEN [self |-> self1, s |-> root_str \o p]
        ELSE [self |-> self1, s |-> root_str \o <<"/">> \o p]

\* make_absolute_anywhere that leaves require_literal_separator as it finds it
make_absolute_anywhere_keeps_flag(self, p) ==
    LET unformatted == IF ends_with(p, <<"*">>) THEN SubSeq(p, 1, Len(p) - 1) ELSE p
    IN  [self |-> self, s |-> <<"*", "*", "/">> \o unformatted]

make_absolute_anywhere(self, p) ==
    LET self1 == [self EXCEPT !.options.require_literal_separator = FALSE]
        unformatted == IF ends_with(p, <<"*">>) THEN SubSeq(p, 1, Len(p) - 1) ELSE p
    IN  [self |-> self1, s |-> <<"*", "*", "/">> \o unformatted]

make_full_path(self, glob, from) ==
    LET anywhere == make_absolute_anywhere(self, from)
        absolute == make_absolute(self, from)
        base == IF glob.match_type = "Anywhere" THEN anywhere ELSE absolute
        suffix == CASE glob.path_kind = "Both" -> <<"*">>
                    [] glob.path_kind = "File" -> <<>>
                    [] glob.path_kind = "Dir" -> <<"*", "*", "/", "*">>
    IN  [self |-> base.self, s |-> base.s \o suffix]

\* [panic, ret, self]: PatternMatcher::new(..).unwrap() panics on Err
ignores_path(self, glob, tgt) ==
    LET full_path == make_full_path(self, glob, glob.string)
        self1 == full_path.self
        matcher == PatternMatcherNew(full_path.s)
    IN  IF matcher.err
        THEN [panic |-> TRUE, ret |-> FALSE, self |-> self1]
        ELSE IF glob.negated
        THEN [panic |-> FALSE, self |-> self1,
              ret |-> ~matches_path_with(matcher, tgt, self1.options)]
        ELSE [panic |-> FALSE, self |-> self1,
              ret |-> matches_path_with(matcher, tgt, self1.options)]

\* the body of the `for line in lines` loop of find_ignored_dirs, from line i on
RECURSIVE find_ignored_dirs_from(_, _, _)
find_ignored_dirs_from(lns, i, ignored_dirs) ==
    IF i > Len(lns) THEN [panic |-> FALSE, dirs |-> ignored_dirs]
    ELSE LET glob == PatternNew(lns[i])
             got == get_parents(glob.string)
             parents == [k \in 1..Len(got) |-> negate(got[k])]
             has_negated_parents ==
                 \E k \in 1..Len(parents) : contains(lns, parents[k])
         IN  IF glob.panic THEN [panic |-> TRUE, dirs |-> ignored_dirs]
             ELSE IF /\ glob.path_kind \in {"Both", "Dir"}
                     /\ ~glob.negated
                     /\ ~has_negated_parents
             THEN find_ignored_dirs_from(lns, i + 1, Append(ignored_dirs, glob.string))
             ELSE find_ignored_dirs_from(lns, i + 1, ignored_dirs)

find_ignored_dirs(lns) == find_ignored_dirs_from(lns, 1, <<>>)

\* ignored_dirs.iter().any(|dir| ..) of ignores, from entry k on; `any` stops at
\* the first match, the unwrap panics on a long_glob that does not compile
RECURSIVE has_ignored_parent_from(_, _, _, _, _, _)
has_ignored_parent_from(self, glob, ignored_dirs, k, tgt, blt) ==
    IF k > Len(ignored_dirs)
    THEN [panic |-> FALSE, ret |-> FALSE, self |-> self, built |-> blt]
    ELSE LET long_glob == make_full_path(self, glob, ignored_dirs[k])
             matcher == PatternMatcherNew(long_glob.s)
             blt1 == blt \cup {<<ignored_dirs[k], long_glob.s>>}
         IN  IF matcher.err
             THEN [panic |-> TRUE, ret |-> FALSE, self |-> long_glob.self, built |-> blt1]
             ELSE IF matches_path(matcher, tgt)
             THEN [panic |-> FALSE, ret |-> TRUE, self |-> long_glob.self, built |-> blt1]
             ELSE has_ignored_parent_from(long_glob.self, glob, ignored_dirs,
                                          k + 1, tgt, blt1)

\* the `for line in lines` loop of ignores, from line i on
RECURSIVE ignores_from(_, _, _, _, _, _, _)
ignores_from(self, lns, i, ignored_dirs, tgt, is_ignored, blt) ==
    IF i > Len(lns)
    THEN [panic |-> FALSE, ret |-> is_ignored, self |-> self, built |-> blt]
    ELSE LET glob == PatternNew(lns[i])
             has_ignored_parent ==
                 has_ignored_parent_from(self, glob, ignored_dirs, 1, tgt, blt)
             one == ignores_path(has_ignored_parent.self, glob, tgt)
         IN  IF glob.panic
             THEN [panic |-> TRUE, ret |-> FALSE, self |-> self, built |-> blt]
             ELSE IF has_ignored_parent.panic
             THEN has_ignored_parent
             ELSE IF has_ignored_parent.ret
             THEN has_ignored_parent
             ELSE IF one.panic
             THEN [panic |-> TRUE, ret |-> FALSE, self |-> one.self,
                   built |-> has_ignored_parent.built]
             ELSE ignores_from(one.self, lns, i + 1, ignored_dirs, tgt, one.ret,
                               has_ignored_parent.built)

ignores(self, lns, tgt) ==
    LET ignored_dirs == find_ignored_dirs(lns)
    IN  IF ignored_dirs.panic
        THEN [panic |-> TRUE, ret |-> FALSE, self |-> self, built |-> {}]
        ELSE ignores_from(self, lns, 1, ignored_dirs.dirs, tgt, FALSE, {})

(* ------------------------- inputs of the callers ----------------------- *)

Roots == { <<"/", "r">>, <<"/", "l", "i", "b", "/", "p">> }

\* lib/  !lib/  /lib/  lib  *.js  !*.js  /lib.js  a**
Rules ==
    { <<"l", "i", "b", "/">>,
      <<"!", "l", "i", "b", "/">>,
      <<"/", "l", "i", "b", "/">>,
      <<"l", "i", "b">>,
      <<"*", ".", "j", "s">>,
      <<"!", "*", ".", "j", "s">>,
      <<"/", "l", "i", "b", ".", "j", "s">>,
      <<"a", "*", "*">> }

\* lib.js  lib/lib.js  d/lib/x.js  a.md   (joined to the root)
RelTargets ==
    { <<"l", "i", "b", ".", "j", "s">>,
      <<"l", "i", "b", "/", "l", "i", "b", ".", "j", "s">>,
      <<"d", "/", "l", "i", "b", "/", "x", ".", "j", "s">>,
      <<"a", ".", "m", "d">> }

\* Path::join of a relative path
path_join(base, rel) == base \o <<"/">> \o rel

Alphabet == {"!", " ", "/", "*", ".", "a"}

NoResult == [panic |-> FALSE, ret |-> FALSE]

NoPattern ==
    [panic |-> FALSE, string |-> <<>>, negated |-> FALSE,
     match_type |-> "none", path_kind |-> "none"]

Self == [root |-> root, options |-> options]

(* ------------------- the evaluator: one Gitignore instance ------------- *)

\* Gitignore::default(), with the working directory as root
Init ==
    /\ root \in Roots
    /\ options = [MatchOptionsNew EXCEPT !.require_literal_separator = FALSE]
    /\ lines = <<>>
    /\ target \in { path_join(root, t) : t \in RelTargets }
    /\ called = "none"
    /\ arg = 0
    /\ result = NoResult
    /\ prior = options.require_literal_separator
    /\ built = {}
    /\ raw = <<>>
    /\ pattern = NoPattern

\* a panic unwinds the caller: nothing runs after it
Alive == ~result.panic

\* the caller adds a rule to its list
PushLine ==
    /\ Alive
    /\ Len(lines) < MaxLines
    /\ \E l \in Rules : lines' = Append(lines, l)
    /\ called' = "none"
    /\ arg' = 0
    /\ result' = NoResult
    /\ prior' = options.require_literal_separator
    /\ built' = {}
    /\ UNCHANGED <<root, options, target, raw, pattern>>

\* the caller starts a new list
ClearLines ==
    /\ Alive
    /\ lines # <<>>
    /\ lines' = <<>>
    /\ called' = "none"
    /\ arg' = 0
    /\ result' = NoResult
    /\ prior' = options.require_literal_separator
    /\ built' = {}
    /\ UNCHANGED <<root, options, target, raw, pattern>>

\* the caller moves to another entry below the root
SetTarget ==
    /\ Alive
    /\ \E t \in RelTargets :
          /\ path_join(root, t) # target
          /\ target' = path_join(root, t)
    /\ called' = "none"
    /\ arg' = 0
    /\ result' = NoResult
    /\ prior' = options.require_literal_separator
    /\ built' = {}
    /\ UNCHANGED <<root, options, lines, raw, pattern>>

\* ig.ignores(&lines, target)
Ignores ==
    /\ Alive
    /\ \E r \in {ignores(Self, lines, target)} :
           /\ options' = r.self.options
           /\ result' = [panic |-> r.panic, ret |-> r.ret]
           /\ built' = r.built
    /\ called' = "ignores"
    /\ arg' = 0
    /\ prior' = options.require_literal_separator
    /\ UNCHANGED <<root, lines, target, raw, pattern>>

\* ig.ignores_path(Pattern::new(lines[k]), target)
IgnoresPath ==
    /\ Alive
    /\ \E k \in 1..Len(lines) :
          LET glob == PatternNew(lines[k])
              r == ignores_path(Self, glob, target)
          IN  /\ arg' = k
              /\ IF glob.panic
                 THEN /\ options' = options
                      /\ result' = [panic |-> TRUE, ret |-> FALSE]
                 ELSE /\ options' = r.self.options
                      /\ result' = [panic |-> r.panic, ret |-> r.ret]
    /\ called' = "ignores_path"
    /\ prior' = options.require_literal_separator
    /\ built' = {}
    /\ UNCHANGED <<root, lines, target, raw, pattern>>

Next == PushLine \/ ClearLines \/ SetTarget \/ Ignores \/ IgnoresPath

Spec == Init /\ [][Next]_vars

(* ---------------- the classifier: Pattern::new on any string ----------- *)

\* Gitignore::default()
InitNew ==
    /\ root \in Roots
    /\ options = [MatchOptionsNew EXCEPT !.require_literal_separator = FALSE]
    /\ lines = <<>>
    /\ target = path_join(root, <<"a">>)
    /\ called = "none"
    /\ arg = 0
    /\ result = NoResult
    /\ prior = options.require_literal_separator
    /\ built = {}
    /\ raw = <<>>
    /\ pattern = NoPattern

\* the caller extends the rule string by one character
TypeChar ==
    /\ Len(raw) < MaxLen
    /\ \E c \in Alphabet : raw' = Append(raw, c)
    /\ called' = "none"
    /\ pattern' = NoPattern
    /\ result' = NoResult
    /\ prior' = options.require_literal_separator
    /\ built' = {}
    /\ UNCHANGED <<root, options, lines, target, arg>>

\* Pattern::new(raw)
New ==
    /\ called = "none"
    /\ pattern' = PatternNew(raw)
    /\ called' = "new"
    /\ UNCHANGED <<root, options, lines, target, arg, result, prior, built, raw>>

\* ig.ignores(&[raw], target)
IgnoresRaw ==
    /\ called = "none"
    /\ LET r == ignores(Self, <<raw>>, target)
       IN  /\ options' = r.self.options
           /\ result' = [panic |-> r.panic, ret |-> r.ret]
           /\ built' = r.built
    /\ called' = "ignores"
    /\ prior' = options.require_literal_separator
    /\ UNCHANGED <<root, lines, target, arg, raw, pattern>>

NextNew == TypeChar \/ New \/ IgnoresRaw

SpecNew == InitNew /\ [][NextNew]_vars

(* ------------------------- vocabulary of the claims --------------------- *)

Pat(k) == PatternNew(lines[k])

Blank(line) == remove_whitespace(line) = <<>>

NoBlankLine == \A k \in 1..Len(lines) : ~Blank(lines[k])

Returned(b) == called # "none" /\ ~result.panic /\ result.ret = b

\* the expression a rule expands to, under its own kind and anchor
OwnExpansion(line) ==
    LET glob == PatternNew(line)
    IN  make_full_path(Self, glob, glob.string).s

\* every rule is a non-blank string whose own expansion glob compiles
WellFormed ==
    \A k \in 1..Len(lines) :
        /\ ~Blank(lines[k])
        /\ ~PatternMatcherNew(OwnExpansion(lines[k])).err

\* the rule matches the target: its expansion, under the expansion's options
RuleMatches(line, tgt) ==
    LET glob == PatternNew(line)
    IN  ignores_path(Self, [glob EXCEPT !.negated = FALSE], tgt).ret

\* the running verdict of the ordered scan after the first n rules
RECURSIVE Verdict(_, _, _)
Verdict(lns, n, tgt) ==
    IF n = 0 THEN FALSE
    ELSE IF RuleMatches(lns[n], tgt) THEN ~PatternNew(lns[n]).negated
    ELSE Verdict(lns, n - 1, tgt)

\* a directory contains the target: its Directory expansion under its own anchor
DirContains(dir, tgt) ==
    LET glob == PatternNew(dir)
        long_glob == make_full_path(Self, [glob EXCEPT !.path_kind = "Dir"], dir).s
        matcher == PatternMatcherNew(long_glob)
    IN  ~matcher.err /\ matches_path(matcher, tgt)

\* an entry of the blocked-directory set holds the target, under its own expansion
BlockApplies ==
    LET dirs == find_ignored_dirs(lines).dirs
    IN  \E k \in 1..Len(dirs) :
            LET matcher == PatternMatcherNew(OwnExpansion(dirs[k]))
            IN  ~matcher.err /\ matches_path(matcher, target)

NoNegatedAncestor(k) ==
    LET parents == get_parents(Pat(k).string)
    IN  \A m \in 1..Len(parents) : ~contains(lines, negate(parents[m]))

\* the directory form of a rule text, without a leading "/"
DirForm(text) ==
    LET d == IF ends_with(text, <<"/">>) THEN text ELSE text \o <<"/">>
    IN  IF starts_with(d, <<"/">>) THEN Tail(d) ELSE d

\* the list negates the rule's own directory form, with or without a leading "/"
NegatedExactly(k) ==
    \/ contains(lines, negate(DirForm(Pat(k).string)))
    \/ contains(lines, negate(<<"/">> \o DirForm(Pat(k).string)))

\* the kind the specification gives a rule text
SpecKind(text) ==
    IF ends_with(text, <<"/">>) THEN "Dir"
    ELSE IF \E k \in 2..(Len(text) - 1) :
                /\ text[k] = "."
                /\ text[k - 1] \notin {".", "/"}
                /\ \A m \in (k + 1)..Len(text) : text[m] \notin {"*", "/"}
    THEN "File"
    ELSE "Both"

\* the target's path below the root
RelTarget == CHOOSE t \in RelTargets : path_join(root, t) = target

\* the outcome of the last call on an instance whose flag the call finds as b
CallResult(b) ==
    LET self == [root |-> root,
                 options |-> [options EXCEPT !.require_literal_separator = b]]
    IN  IF called = "ignores"
        THEN LET r == ignores(self, lines, target)
             IN  [panic |-> r.panic, ret |-> r.ret]
        ELSE IF Pat(arg).panic
        THEN [panic |-> TRUE, ret |-> FALSE]
        ELSE LET r == ignores_path(self, Pat(arg), target)
             IN  [panic |-> r.panic, ret |-> r.ret]

\* the last call was made with the single rule lines[k]
SingleRuleCall(k) ==
    \/ called = "ignores_path" /\ arg = k
    \/ called = "ignores" /\ Len(lines) = 1 /\ k = 1

(* -------------------------------- claims -------------------------------- *)

\* C1: when no directory block applies, ignores returns the last-match-wins
\* verdict: false at first, set to not-negated by each rule that matches the
\* target and left alone by each rule that does not. (Stated for lists of
\* well-formed rules and calls that return.)
C1_LastMatchWins ==
    (called = "ignores" /\ ~result.panic /\ WellFormed /\ ~BlockApplies)
        => result.ret = Verdict(lines, Len(lines), target)

\* C2: a non-negated Directory rule whose directory contains the target, with no
\* rule negating that directory or an ancestor of it, makes ignores return true
\* whatever else the list holds. (Stated for lists of well-formed rules.)
C2_DirectoryBlock ==
    (/\ called = "ignores"
     /\ WellFormed
     /\ \E k \in 1..Len(lines) :
            /\ Pat(k).path_kind = "Dir"
            /\ ~Pat(k).negated
            /\ DirContains(Pat(k).string, target)
            /\ NoNegatedAncestor(k))
        => Returned(TRUE)

\* C3: a non-negated rule of kind Directory or Both whose own directory form is
\* negated in the list, written with or without a leading "/", is not put in the
\* blocked-directory set.
C3_ExactNegation ==
    (called = "ignores" /\ ~result.panic)
        => \A k \in 1..Len(lines) :
               (/\ Pat(k).path_kind \in {"Dir", "Both"}
                /\ ~Pat(k).negated
                /\ NegatedExactly(k))
                   => ~contains(find_ignored_dirs(lines).dirs, Pat(k).string)

\* C4: Pattern::new returns a Pattern for every string, and ignores treats a
\* blank rule as a no-op: the list holding only that rule excludes nothing.
C4_Total ==
    /\ called = "new" => ~pattern.panic
    /\ (called = "ignores" /\ Blank(raw)) => Returned(FALSE)

\* C5: ignores and ignores_path never abort on a rule whose expansion glob
\* cannot compile: every call on non-blank rules ends with a boolean.
C5_NoAbort ==
    (called \in {"ignores", "ignores_path"} /\ NoBlankLine) => ~result.panic

\* C6: the outcome of a call depends only on its arguments, not on the
\* require_literal_separator flag an earlier call left behind: the same call on
\* an instance holding the other flag value has the same outcome.
C6_FlagIndependent ==
    called \in {"ignores", "ignores_path"} => CallResult(~prior) = result

C6_Witness ==
    /\ called = "ignores_path"
    /\ prior
    /\ Pat(arg).match_type = "Anywhere"
    /\ Pat(arg).path_kind = "Both"
    /\ Returned(TRUE)
    /\ ~options.require_literal_separator

\* C7: a rule that begins with "/" excludes a target, through ignores_path or
\* through ignores with that single rule, only if the target's path begins with
\* the rule's text right below the root; the same name at a deeper level is not
\* excluded. (Stated for the rules whose text is literal, without "*".)
C7_Anchoring ==
    \A k \in 1..Len(lines) :
        (/\ SingleRuleCall(k)
         /\ starts_with(lines[k], <<"/">>)
         /\ \A m \in 1..Len(lines[k]) : lines[k][m] # "*"
         /\ Returned(TRUE))
            => starts_with(target, root \o Pat(k).string)

C7_Witness ==
    /\ called = "ignores"
    /\ Len(lines) = 1
    /\ starts_with(lines[1], <<"/">>)
    /\ Pat(1).path_kind = "Both"
    /\ Returned(TRUE)

\* C8: the expression ignores builds for an entry of the blocked-directory set
\* is the Directory expansion under the entry's own anchor, whatever rule is
\* being scanned. (Stated for the entries that come from Directory rules.)
C8_BlockExpansion ==
    (called = "ignores" /\ ~result.panic)
        => \A e \in built :
               PatternNew(e[1]).path_kind = "Dir" => e[2] = OwnExpansion(e[1])

\* C9: the kind Pattern::new computes is Directory iff the text ends with "/",
\* else File iff it ends in a literal ".ext" suffix without "*", else Both.
\* (Stated for the texts that hold at most one ".".)
C9_Kind ==
    (/\ called = "new"
     /\ ~pattern.panic
     /\ Len(SelectSeq(pattern.string, LAMBDA c : c = ".")) <= 1)
        => pattern.path_kind = SpecKind(pattern.string)

\* C10: an Anywhere-anchored rule matches only on the target's path below the
\* root, never on the segments of the root: when it excludes a target, it
\* excludes the same relative path under every other root.
C10_BelowRootOnly ==
    (/\ called = "ignores_path"
     /\ Pat(arg).match_type = "Anywhere"
     /\ ~Pat(arg).negated
     /\ Returned(TRUE))
        => \A r2 \in Roots :
               ignores_path([root |-> r2, options |-> options], Pat(arg),
                            path_join(r2, RelTarget)).ret

====
